---- MODULE Spec2Model ----
(***************************************************************************)
(* Model of monitor/ssh_handler.py: the usage parser, the direct fetcher,  *)
(* the nested (bastion) session driver and get_server_usage.               *)
(*                                                                         *)
(* A text is a sequence of one-character strings.  Two elements stand for  *)
(* a fixed multi-character string that every regular expression of the     *)
(* program treats as a unit: "T1" is the timestamp 2024-01-01 00:00:00 and *)
(* "T2" is 2024-01-01 00:01:00.  The character written "s2" is the         *)
(* superscript two (U+00B2).                                               *)
(*                                                                         *)
(* The session's stdout is a buffered text reader (Popen with text=True):  *)
(* read(1) hands out one character, but a reader that holds none takes     *)
(* everything the pipe holds, and select() looks at the pipe only.         *)
(***************************************************************************)
EXTENDS Integers, Sequences, FiniteSets, TLC

VARIABLES
    parse_lines,      \* parse_usage_data: the argument `lines`
    parse_result,     \* parse_usage_data: what it returned or raised
    ansi_text,        \* remove_ansi_escape: the argument
    ansi_cleaned,     \* remove_ansi_escape: what it returned
    expect_success,   \* what _expect_output returned: the flag
    expect_output,    \* what _expect_output returned: the text
    data_outcome,     \* lines 191-200: what they returned or raised
    pc,               \* where the fetch stands
    server_config,    \* get_server_usage: the descriptor
    calls,            \* the fetchers get_server_usage invoked, with their arguments
    direct_run,       \* run_ssh_command_direct: what subprocess.run did
    fetched,          \* what the fetcher returned or raised
    result,           \* what get_server_usage returned
    response,         \* get_usage: the body of the JSON response
    bastion_process,  \* the session process: "None", "running", "exited" (on its
                      \* own) or "terminated" (by terminate())
    ssh_cmd,          \* _run_ssh_session: the argument list of the process
    step,             \* which wait of the nested driver: 1, 2, 3 (ready), 4 (data)
    output,           \* the wait loop's `output`
    elapsed,          \* the wait loop's time.time() - start_time, in ticks
    pipe,             \* what the session wrote to its stdout and nobody read yet
    buffered,         \* what process.stdout read from the pipe ahead of read(1)
    arrivals,         \* the runs of characters that arrived during this wait
    max_arrivals,     \* how many arrive at most during one wait
    wait_end,         \* how each wait so far ended
    sent,             \* the lines written to the session's stdin
    pending,          \* what the try block returned or raised, held over `finally`
    teardowns,        \* how many times the finally block was entered
    terminations,     \* how many times terminate() was called
    parked            \* a second fetch, while the other one takes its steps: its variables

parseVars == <<parse_lines, parse_result>>

pureVars == <<ansi_text, ansi_cleaned, expect_success, expect_output, data_outcome>>

fetchVars == <<server_config, calls, direct_run, fetched, result, response>>

otherVars == <<parked>>

sessionVars == <<bastion_process, ssh_cmd, step, output, elapsed, pipe, buffered, arrivals,
                 max_arrivals, wait_end, sent, pending, teardowns, terminations>>

vars == <<parse_lines, parse_result, ansi_text, ansi_cleaned, expect_success, expect_output,
          data_outcome,
          pc, server_config, calls, direct_run, fetched, result, response,
          bastion_process, ssh_cmd, step, output, elapsed, pipe, buffered, arrivals, max_arrivals, wait_end,
          sent, pending, teardowns, terminations, parked>>

(***************************************************************************)
(* Bounds of the model                                                     *)
(***************************************************************************)
MaxLines == 3      \* longest list of lines handed to parse_usage_data
MaxTextLen == 4    \* longest text handed to remove_ansi_escape
MaxArrivals == 3   \* most runs of characters that arrive during one wait
MaxArrivalsFair == 1 \* the same, where termination is checked
MaxArrivalsTimed == 1 \* the same, where every poll of a wait is a step
TicksPerPoll == 2  \* clock ticks in one 0.1 s poll slice

(***************************************************************************)
(* Python values                                                           *)
(***************************************************************************)
None == [none |-> TRUE]
NotRun == [notrun |-> TRUE]

(***************************************************************************)
(* str helpers                                                             *)
(***************************************************************************)
Whitespace == {" ", "\t", "\n"}

Timestamps == {"T1", "T2"}

AsciiDigits == {"0", "1", "2", "3", "4", "5", "6", "7", "8", "9"}

\* characters c with c.isdigit(): the ASCII digits and, among others, the
\* superscript digits, which float() does not accept
IsDigitChar(c) == c \in AsciiDigits \/ c = "s2"

Range(s) == {s[i] : i \in DOMAIN s}

Max(S) == CHOOSE x \in S : \A y \in S : y <= x

Min(S) == CHOOSE x \in S : \A y \in S : x <= y

\* s[a..b], empty when b < a
Slice(s, a, b) == [i \in 1..(b - a + 1) |-> s[a + i - 1]]

\* str.strip()
Strip(s) ==
    LET keep == {i \in DOMAIN s : s[i] \notin Whitespace}
    IN  IF keep = {} THEN <<>> ELSE Slice(s, Min(keep), Max(keep))

\* str.split(sep): the pieces between the occurrences of sep, empty ones kept
RECURSIVE SplitOn(_, _)
SplitOn(s, sep) ==
    LET at == {i \in DOMAIN s : s[i] = sep}
    IN  IF at = {} THEN <<s>>
        ELSE <<Slice(s, 1, Min(at) - 1)>> \o SplitOn(Slice(s, Min(at) + 1, Len(s)), sep)

\* str.split(): the maximal runs of non-whitespace
RECURSIVE SplitWs(_)
SplitWs(s) ==
    LET t == Strip(s)
        ws == {i \in DOMAIN t : t[i] \in Whitespace}
    IN  IF t = <<>> THEN <<>>
        ELSE IF ws = {} THEN <<t>>
        ELSE <<Slice(t, 1, Min(ws) - 1)>> \o SplitWs(Slice(t, Min(ws), Len(t)))

\* str.splitlines() for texts whose only line break is "\n"
RECURSIVE SplitLines(_)
SplitLines(s) ==
    LET at == {i \in DOMAIN s : s[i] = "\n"}
    IN  IF s = <<>> THEN <<>>
        ELSE IF at = {} THEN <<s>>
        ELSE <<Slice(s, 1, Min(at) - 1)>> \o SplitLines(Slice(s, Min(at) + 1, Len(s)))

\* sep.join(parts)
RECURSIVE Join(_, _)
Join(parts, sep) ==
    IF parts = <<>> THEN <<>>
    ELSE IF Len(parts) = 1 THEN parts[1]
    ELSE parts[1] \o <<sep>> \o Join(Tail(parts), sep)

\* [x for x in s if keep-condition], for a set of kept indices
RECURSIVE SelectIdx(_, _, _)
SelectIdx(s, keep, i) ==
    IF i > Len(s) THEN <<>>
    ELSE (IF i \in keep THEN <<s[i]>> ELSE <<>>) \o SelectIdx(s, keep, i + 1)

(***************************************************************************)
(* float: a decimal m / 10^e.  The rounding of binary floating point is    *)
(* not modelled: the difference of two values is their exact difference.   *)
(***************************************************************************)
Pow10(n) == IF n = 0 THEN 1 ELSE IF n = 1 THEN 10 ELSE IF n = 2 THEN 100 ELSE 1000

DigitVal(c) ==
    CASE c = "0" -> 0 [] c = "1" -> 1 [] c = "2" -> 2 [] c = "3" -> 3 [] c = "4" -> 4
      [] c = "5" -> 5 [] c = "6" -> 6 [] c = "7" -> 7 [] c = "8" -> 8 [] c = "9" -> 9

RECURSIVE DigitsVal(_)
DigitsVal(ds) ==
    IF ds = <<>> THEN 0 ELSE 10 * DigitsVal(SubSeq(ds, 1, Len(ds) - 1)) + DigitVal(ds[Len(ds)])

\* tok.replace('.', '', 1)
DropFirstDot(tok) ==
    LET dots == {i \in DOMAIN tok : tok[i] = "."}
    IN  IF dots = {} THEN tok
        ELSE Slice(tok, 1, Min(dots) - 1) \o Slice(tok, Min(dots) + 1, Len(tok))

\* str.isdigit(): non-empty and every character a digit
IsDigitStr(s) == s # <<>> /\ \A i \in DOMAIN s : IsDigitChar(s[i])

\* float(tok) for a tok that passed the isdigit test: the value, or ValueError
\* when a character is a digit that is no decimal digit
FloatOf(tok) ==
    LET dots == {i \in DOMAIN tok : tok[i] = "."}
        ds == DropFirstDot(tok)
    IN  IF \E i \in DOMAIN ds : ds[i] \notin AsciiDigits
        THEN [raise |-> "ValueError"]
        ELSE [m |-> DigitsVal(ds),
              e |-> IF dots = {} THEN 0 ELSE Len(tok) - Min(dots)]

\* a - b
FloatSub(a, b) ==
    LET e == IF a.e >= b.e THEN a.e ELSE b.e
    IN  [m |-> a.m * Pow10(e - a.e) - b.m * Pow10(e - b.e), e |-> e]

(***************************************************************************)
(* parse_usage_data                                                        *)
(***************************************************************************)
\* [x.strip() for x in line.split(",")]
Fields(line) ==
    LET parts == SplitOn(line, ",")
    IN  [i \in DOMAIN parts |-> Strip(parts[i])]

MinFields == 6

\* IsValidLine with the comparison off by one: seven fields required
IsValidLineStrict(line) == Len(Fields(line)) > MinFields

IsValidLine(line) == Len(Fields(line)) >= MinFields

\* the lines kept by the filter of lines 224-228, in order
ValidLines(lines) ==
    SelectIdx(lines, {i \in DOMAIN lines : IsValidLine(lines[i])}, 1)

\* _extract_numeric_value
ExtractNumericValue(s) ==
    LET parts == SplitWs(s)
    IN  IF Len(parts) >= 2 /\ IsDigitStr(DropFirstDot(parts[1]))
        THEN FloatOf(parts[1])
        ELSE None

IsRaise(v) == "raise" \in DOMAIN v

IsNone(v) == "none" \in DOMAIN v

\* last - prev if both are not None else None
Diff(last, prev) ==
    IF ~IsNone(last) /\ ~IsNone(prev) THEN FloatSub(last, prev) ELSE None

\* PickPair taking the first two valid lines instead of the last two
PickFirstPair(valid) == <<valid[1], valid[2]>>

\* the valid-line pair the record is built from: (previous, last)
PickPair(valid) == <<valid[Len(valid) - 1], valid[Len(valid)]>>

ParseUsageData(lines) ==
    LET valid == ValidLines(lines)
    IN  IF Len(valid) < 2
        THEN [raise |-> "CSVParseError", msg |-> "Insufficient valid CSV data",
              found |-> Len(valid), total |-> Len(lines)]
        ELSE
          LET pair == PickPair(valid)
              last_line == Fields(pair[2])
              prev_line == Fields(pair[1])
              last_upload == ExtractNumericValue(last_line[2])
              prev_upload == ExtractNumericValue(prev_line[2])
              last_download == ExtractNumericValue(last_line[3])
              prev_download == ExtractNumericValue(prev_line[3])
          IN  IF \E v \in {last_upload, prev_upload, last_download, prev_download} : IsRaise(v)
              THEN [raise |-> "CSVParseError", msg |-> "Error parsing CSV data",
                    found |-> Len(valid), total |-> Len(lines)]
              ELSE [last_update |-> last_line[1],
                    upload |-> Diff(last_upload, prev_upload),
                    download |-> Diff(last_download, prev_download),
                    disk |-> last_line[4],
                    cpu |-> last_line[5],
                    ram |-> last_line[6]]

(***************************************************************************)
(* Pattern detection.  "ESC" is the escape character \x1B; the backslash,  *)
(* the double quote, the apostrophe and the backtick are written by name.  *)
(***************************************************************************)
UpperCase == {"A", "B", "C", "D", "E", "F", "G", "H", "I", "J", "K", "L", "M", "N",
              "O", "P", "Q", "R", "S", "T", "U", "V", "W", "X", "Y", "Z"}

LowerCase == {"a", "b", "c", "d", "e", "f", "g", "h", "i", "j", "k", "l", "m", "n",
              "o", "p", "q", "r", "s", "t", "u", "v", "w", "x", "y", "z"}

\* [@-Z\\-_]
AnsiFe == {"@"} \cup UpperCase \cup {"BACKSLASH", "]", "^", "_"}

\* [0-?]
AnsiParam == AsciiDigits \cup {":", ";", "<", "=", ">", "?"}

\* [ -/]
AnsiIntermediate == {" ", "!", "QUOTE", "#", "$", "%", "&", "APOSTROPHE", "(", ")", "*", "+", ",",
                     "-", ".", "/"}

\* [@-~]
AnsiFinal == AnsiFe \cup {"[", "BACKTICK", "{", "|", "}", "~"} \cup LowerCase

\* the first index >= i of s whose element is not in class (Len(s) + 1 if none)
RECURSIVE SkipClass(_, _, _)
SkipClass(s, i, class) ==
    IF i <= Len(s) /\ s[i] \in class THEN SkipClass(s, i + 1, class) ELSE i

\* ANSI_ESCAPE matched at index i of s: the index after the match, or 0.  The
\* three classes of a CSI sequence are disjoint, so the greedy match is the only
\* one.
AnsiMatchEnd(s, i) ==
    IF s[i] # "ESC" \/ i = Len(s) THEN 0
    ELSE IF s[i + 1] \in AnsiFe THEN i + 2
    ELSE IF s[i + 1] = "[" THEN
        LET f == SkipClass(s, SkipClass(s, i + 2, AnsiParam), AnsiIntermediate)
        IN  IF f <= Len(s) /\ s[f] \in AnsiFinal THEN f + 1 ELSE 0
    ELSE 0

\* ANSI_ESCAPE.sub('', s[i..]): the matches found scanning left to right
RECURSIVE RemoveAnsiFrom(_, _)
RemoveAnsiFrom(s, i) ==
    IF i > Len(s) THEN <<>>
    ELSE IF AnsiMatchEnd(s, i) # 0 THEN RemoveAnsiFrom(s, AnsiMatchEnd(s, i))
    ELSE <<s[i]>> \o RemoveAnsiFrom(s, i + 1)

\* remove_ansi_escape
RemoveAnsi(text) == RemoveAnsiFrom(text, 1)

\* \x1b[2J\x1b[H
ClearScreen == <<"ESC", "[", "2", "J", "ESC", "[", "H">>

Contains(s, sub) ==
    \E i \in 1..(Len(s) - Len(sub) + 1) : Slice(s, i, i + Len(sub) - 1) = sub

\* clear_screen_pattern.search(output)
IsClearScreen(buf) == Contains(buf, ClearScreen)

PromptChars == {":", "#", "$"}

\* '$' of a pattern compiled without re.MULTILINE, before index i of s: at the
\* end of s, or before a line break that is the last character of s
EndAnchor(s, i) == i = Len(s) + 1 \/ (i = Len(s) /\ s[i] = "\n")

\* '^' of a pattern compiled without re.MULTILINE, before index i of s
StartAnchor(s, i) == i = 1

\* prompt_pattern.search(output), the pattern [:#\$] ?$
IsPrompt(buf) ==
    \E a \in 1..(Len(buf) + 1) :
        /\ EndAnchor(buf, a)
        /\ \/ (a >= 2 /\ buf[a - 1] \in PromptChars)
           \/ (a >= 3 /\ buf[a - 1] = " " /\ buf[a - 2] \in PromptChars)

\* the predicate of _wait_for_prompt_or_clear_screen
IsReady(buf) == IsClearScreen(buf) \/ IsPrompt(buf)

\* csv_line_pattern without its anchors, on s[i..j-1]:
\* timestamp , .* (KB|B|MB|GB) , .* (KB|B|MB|GB) , .* %
CsvLineBody(s, i, j) ==
    /\ 1 <= i /\ i + 1 < j /\ j <= Len(s) + 1
    /\ s[i] \in Timestamps
    /\ s[i + 1] = ","
    /\ s[j - 1] = "%"
    /\ \A k \in i..(j - 1) : s[k] # "\n"
    /\ LET units == {p \in (i + 2)..(j - 3) : s[p] = "B" /\ s[p + 1] = ","}
       IN  \E p1 \in units : \E p2 \in units : p1 + 2 <= p2

\* ^ csv_line_pattern $ \n matched on s[i..j], the "\n" at j
CsvLineAt(s, i, j) ==
    /\ 1 <= i /\ j <= Len(s)
    /\ StartAnchor(s, i)
    /\ s[j] = "\n"
    /\ EndAnchor(s, j)
    /\ CsvLineBody(s, i, j)

\* re.compile("(?:" + csv_line_pattern + "\n){2}").search(output): a match
\* starts at a timestamp and each of its two lines ends at a line break
IsDataReady(buf) ==
    LET starts == {i \in DOMAIN buf : buf[i] \in Timestamps}
        breaks == {j \in DOMAIN buf : buf[j] = "\n"}
    IN  \E i \in starts : \E j \in breaks : \E k \in breaks :
            CsvLineAt(buf, i, j) /\ CsvLineAt(buf, j + 1, k)

\* re.match(r"^\d{4}-\d{2}-\d{2} \d{2}:\d{2}:\d{2},", line)
HasLeadingTimestamp(line) == Len(line) >= 2 /\ line[1] \in Timestamps /\ line[2] = ","

\* csv_lines of lines 192-194
CsvLines(combined_output) ==
    LET output_lines == SplitLines(Strip(combined_output))
        kept == SelectIdx(output_lines,
                          {i \in DOMAIN output_lines : HasLeadingTimestamp(output_lines[i])}, 1)
    IN  [i \in DOMAIN kept |-> RemoveAnsi(kept[i])]

(***************************************************************************)
(* Inputs of the parser                                                    *)
(***************************************************************************)
KB(ds) == ds \o <<" ", "K", "B">>

\* upload / download fields
SizeFields ==
    { KB(<<"1", "0">>), KB(<<"1", "5">>), KB(<<"1", ".", "5">>),
      KB(<<"N", "/", "A">>), KB(<<"s2">>), <<"7">> }

MkLine(fs) == Join(fs, ",")

\* the row of the usage log written at ts, with the given upload and download
\* fields, cut or extended to n fields
Row(ts, up, down, n) ==
    LET pct == IF ts = "T1" THEN << <<"5", "0", "%">>, <<"3", "%">>, <<"4", "0", "%">> >>
               ELSE << <<"5", "1", "%">>, <<"4", "%">>, <<"4", "1", "%">> >>
        full == << <<ts>>, up, down >> \o pct \o << <<"x">> >>
    IN  MkLine(SubSeq(full, 1, n))

\* "2024-01-01 00:00:00,10 KB,5 KB,50%,3%,40%"
CsvRow1 == Row("T1", KB(<<"1", "0">>), KB(<<"5">>), 6)

\* "2024-01-01 00:01:00,15 KB,8 KB,51%,4%,41%"
CsvRow2 == Row("T2", KB(<<"1", "5">>), KB(<<"8">>), 6)

ParseLineSet ==
    { Row("T1", up, KB(<<"5">>), 6) : up \in SizeFields }
      \cup { Row("T2", KB(<<"1", "5">>), down, 6) : down \in SizeFields \cup {KB(<<"8">>)} }
      \cup { Row("T2", <<" ">> \o KB(<<"1", "5">>) \o <<" ">>, <<" ">> \o KB(<<"8">>), 6) }
      \cup { Row("T1", KB(<<"1", "0">>), KB(<<"5">>), n) : n \in {1, 5, 7} }
      \cup { <<>> }

SeqsUpTo(S, n) == UNION { [1..k -> S] : k \in 0..n }

\* no pure function under test
PureIdle ==
    /\ ansi_text = <<>>
    /\ ansi_cleaned = NotRun
    /\ expect_success = FALSE
    /\ expect_output = <<>>
    /\ data_outcome = NotRun

\* no fetch in progress
Idle ==
    /\ pc = "idle"
    /\ server_config = None
    /\ calls = <<>>
    /\ direct_run = NotRun
    /\ fetched = NotRun
    /\ result = NotRun
    /\ response = NotRun
    /\ bastion_process = "None"
    /\ ssh_cmd = None
    /\ step = 0
    /\ output = <<>>
    /\ elapsed = 0
    /\ pipe = <<>>
    /\ buffered = <<>>
    /\ arrivals = 0
    /\ max_arrivals = 0
    /\ wait_end = <<>>
    /\ sent = <<>>
    /\ pending = NotRun
    /\ teardowns = 0
    /\ terminations = 0
    /\ parked = NotRun

ParseInit ==
    /\ parse_lines \in SeqsUpTo(ParseLineSet, MaxLines)
    /\ parse_result = NotRun
    /\ PureIdle
    /\ Idle

Parse ==
    /\ parse_result = NotRun
    /\ parse_result' = ParseUsageData(parse_lines)
    /\ UNCHANGED <<parse_lines, pureVars, otherVars, pc, fetchVars, sessionVars>>

ParseNext == Parse

SpecParse == ParseInit /\ [][ParseNext]_vars

(***************************************************************************)
(* Descriptors (settings.SERVERS)                                          *)
(***************************************************************************)
Get(cfg, k, default) == IF k \in DOMAIN cfg THEN cfg[k] ELSE default

\* the host configs of one host: key file and password each present or not
HostConfigs(host, port) ==
    { [hostname |-> host, username |-> "user", port |-> port] } \cup
    { [hostname |-> host, username |-> "user", port |-> port, key_filepath |-> "key"] } \cup
    { [hostname |-> host, username |-> "user", port |-> port, password |-> "secret"] } \cup
    { [hostname |-> host, username |-> "user", port |-> port,
       key_filepath |-> "key", password |-> "secret"] }

ProxyConfigs ==
    { [hostname |-> "bastion", username |-> "user", key_filepath |-> "key"],
      [hostname |-> "bastion", username |-> "user", password |-> "secret"] }

WithThen(proxy, final) ==
    [k \in DOMAIN proxy \cup {"then"} |-> IF k = "then" THEN final ELSE proxy[k]]

NestedServers == { WithThen(p, f) : p \in ProxyConfigs, f \in HostConfigs("target", 5687) }

DirectServers == HostConfigs("direct", 22)

Servers == NestedServers \cup DirectServers

(***************************************************************************)
(* Exceptions and returns                                                  *)
(***************************************************************************)
Raise(type, msg, detail) == [raise |-> type, msg |-> msg, detail |-> detail]

Return(value) == [ret |-> value]

IsReturn(v) == "ret" \in DOMAIN v

(***************************************************************************)
(* run_ssh_command_direct                                                  *)
(***************************************************************************)
\* what subprocess.run may do: time out, fail to start, or complete
DirectRuns ==
    { [kind |-> "timeout"], [kind |-> "oserror"] } \cup
    { [kind |-> "completed", returncode |-> rc, stdout |-> out] :
        rc \in {0, 1},
        out \in { <<>>, <<"\n">>,
                  CsvRow1 \o <<"\n">> \o CsvRow2 \o <<"\n">>,
                  <<"ESC", "[", "0", "m">> \o CsvRow1 \o <<"\n">> \o CsvRow2,
                  CsvRow1 \o <<"\n">>,
                  CsvRow1 \o <<"\n">> \o Row("T2", KB(<<"s2">>), KB(<<"8">>), 6) \o <<"\n">> } }

\* the try block, lines 110-124
DirectTry(run) ==
    IF run.kind = "timeout" THEN Raise("TimeoutExpired", "timed out", <<>>)
    ELSE IF run.kind = "oserror" THEN Raise("OSError", "cannot execute", <<>>)
    ELSE IF run.returncode # 0
         THEN Raise("SSHCommandError", "Command failed with status", run.returncode)
    ELSE IF RemoveAnsi(Strip(run.stdout)) = <<>>
         THEN Raise("SSHCommandError", "No output received from remote command", <<>>)
    ELSE Return(SplitLines(RemoveAnsi(Strip(run.stdout))))

\* the except clauses, lines 125-131: every Exception other than the timeout,
\* the SSHCommandError raised in the try block included, is caught by the last
DirectExcept(o) ==
    IF IsReturn(o) THEN o
    ELSE IF o.raise = "TimeoutExpired"
         THEN Raise("SSHConnectionError", "SSH connection timed out", <<>>)
    ELSE Raise("SSHConnectionError", "Failed to execute SSH command", o)

RunSshCommandDirect(run) == DirectExcept(DirectTry(run))

(***************************************************************************)
(* get_server_usage                                                        *)
(***************************************************************************)
IsNested(cfg) == "then" \in DOMAIN cfg

FinalConfig(cfg) == cfg["then"]

\* ProxyConfig without the removal of the nested-target key
ProxyConfigWithThen(cfg) == cfg

ProxyConfig(cfg) == [k \in DOMAIN cfg \ {"then"} |-> cfg[k]]

\* RenderError without the last clause, `except Exception`: the exception leaves
\* get_server_usage
RenderErrorNoCatchAll(e) ==
    IF e.raise = "SSHConnectionError" THEN [error |-> <<"Connection failed", e>>]
    ELSE IF e.raise = "SSHCommandError" THEN [error |-> <<"Command failed", e>>]
    ELSE IF e.raise = "CSVParseError" THEN [error |-> <<"Data parsing failed", e>>]
    ELSE e

\* the except clauses, lines 278-286
RenderError(e) ==
    IF e.raise = "SSHConnectionError" THEN [error |-> <<"Connection failed", e>>]
    ELSE IF e.raise = "SSHCommandError" THEN [error |-> <<"Command failed", e>>]
    ELSE IF e.raise = "CSVParseError" THEN [error |-> <<"Data parsing failed", e>>]
    ELSE [error |-> <<"Internal error", e>>]

\* lines 277-286, given what the fetcher returned or raised
UsageOf(o) ==
    IF IsReturn(o)
    THEN LET parsed == ParseUsageData(o.ret)
         IN  IF IsRaise(parsed) THEN RenderError(parsed) ELSE parsed
    ELSE RenderError(o)

(***************************************************************************)
(* Time.  A tick is 1 / TicksPerPoll of the 0.1 s slice of select().       *)
(***************************************************************************)
PollsPerSecond == 10

ReadyTimeoutSeconds == 30

DataTimeoutSeconds == 60

PollInterval == TicksPerPoll

Ticks(seconds) == seconds * PollsPerSecond * TicksPerPoll

\* Timeout with the 60 s of the data wait given to every wait
TimeoutOfDataWait(n) == Ticks(DataTimeoutSeconds)

Timeout(n) == IF n = 4 THEN Ticks(DataTimeoutSeconds) ELSE Ticks(ReadyTimeoutSeconds)

(***************************************************************************)
(* run_ssh_command_nested                                                  *)
(***************************************************************************)
\* os.path.exists: the key files present on the machine that runs the monitor
KeyFiles == {"key"}

\* _run_ssh_session, lines 31-37: the argument list of the session process.
\* The key is used if configured and its file exists, else the password.
RunSshSessionCommand(config) ==
    LET ssh_key == Get(config, "key_filepath", "None")
        password == Get(config, "password", "None")
        useKey == ssh_key # "None" /\ ssh_key \in KeyFiles
    IN  [cmd |-> "ssh -tt",
         ssh |-> [port |-> Get(config, "port", 22),
                  user |-> config.username,
                  host |-> config.hostname],
         identity |-> IF useKey THEN ssh_key ELSE "None",
         sshpass |-> IF ~useKey /\ password # "None" THEN password ELSE "None"]

\* target_ssh_command, lines 163-167: the two `if`s are independent, each
\* prepends its words to the line built so far.  `line` is the line word by
\* word, the port and the destination standing for the values of `ssh`.
TargetSshCommand(final_config) ==
    LET final_key == Get(final_config, "key_filepath", "None")
        final_password == Get(final_config, "password", "None")
        plain == <<"ssh", "-p", "final_port", "final_user@final_host">>
        keyed == IF final_key # "None"
                 THEN <<"ssh", "-i", final_key>> \o plain ELSE plain
        wrapped == IF final_password # "None"
                   THEN <<"sshpass", "-p", final_password>> \o keyed ELSE keyed
    IN  [cmd |-> "ssh",
         ssh |-> [port |-> Get(final_config, "port", 22),
                  user |-> final_config.username,
                  host |-> final_config.hostname],
         identity |-> final_key,
         sshpass |-> final_password,
         line |-> wrapped]

TailCommand == [cmd |-> "tail -2 ~/usage.csv 2>/dev/null"]

ExitCommand == [cmd |-> "exit"]

\* the runs of characters that may arrive at once during wait n: prompts, a
\* colon inside a line as in a login banner, other text, the clear-screen
\* sequence.  Rows of the usage log appear only after the tail command.
Emissions(n) ==
    IF n = 4 THEN { <<"x">>, <<"\n">>, CsvRow1 \o <<"\n">> }
    ELSE { <<"$">>, <<"$", " ">>, <<":", "x">>, <<"x">>, <<"\n">>, ClearScreen }

\* the same where every poll is a step: runs that satisfy the predicate of a
\* ready wait, one of them leaving a character with the reader, and a run that
\* satisfies none
TimedEmissions(n) ==
    IF n = 4 THEN { <<"x">> } ELSE { <<"$">>, <<"$", " ">>, <<"x">> }

\* the predicate of wait n
Matched(n, buf) == IF n = 4 THEN IsDataReady(buf) ELSE IsReady(buf)

WaitFailure(n, buf) ==
    CASE n = 1 -> Raise("SSHConnectionError", "Timeout waiting for bastion response", RemoveAnsi(buf))
      [] n = 2 -> Raise("SSHConnectionError", "Timeout waiting for target connection", RemoveAnsi(buf))
      [] n = 3 -> Raise("SSHConnectionError", "Timeout waiting for prompt on the target server", RemoveAnsi(buf))
      [] n = 4 -> Raise("SSHCommandError", "Timeout waiting for target CSV output", RemoveAnsi(buf))

\* DataOutcome with one valid line being enough
DataOutcomeOneLineEnough(combined_output) ==
    LET csv_lines == CsvLines(combined_output)
    IN  IF Len(csv_lines) >= 1
        THEN Return(SubSeq(csv_lines, Max({1, Len(csv_lines) - 1}), Len(csv_lines)))
        ELSE Raise("SSHCommandError", "Expected at least two valid CSV lines", csv_lines)

\* lines 191-198: the outcome once the data pattern matched
DataOutcome(combined_output) ==
    LET csv_lines == CsvLines(combined_output)
    IN  IF Len(csv_lines) >= 2
        THEN Return(SubSeq(csv_lines, Len(csv_lines) - 1, Len(csv_lines)))
        ELSE Raise("SSHCommandError", "Expected at least two valid CSV lines", csv_lines)

\* NestedExcept without the last clause, `except Exception`
NestedExceptNoCatchAll(e) == e

\* the except clauses, lines 202-207
NestedExcept(e) ==
    IF e.raise \in {"SSHConnectionError", "SSHCommandError"} THEN e
    ELSE Raise("SSHConnectionError", "Error during nested SSH", e)

BrokenPipe == Raise("BrokenPipeError", "Broken pipe", <<>>)

\* a wait loop is entered: its output and its clock start afresh, what the
\* pipe and the reader hold stays
StartWait(n) ==
    /\ step' = n
    /\ output' = <<>>
    /\ elapsed' = 0
    /\ arrivals' = 0
    /\ UNCHANGED <<pipe, buffered>>

\* the try block is left with outcome o: on to the finally block
LeaveTry(o) ==
    /\ pending' = o
    /\ pc' = "finally"

(***************************************************************************)
(* Actions of a fetch                                                      *)
(***************************************************************************)
FetchStart(servers, cap) ==
    /\ parse_lines = <<>>
    /\ parse_result = NotRun
    /\ PureIdle
    /\ pc = "start"
    /\ server_config \in servers
    /\ calls = <<>>
    /\ direct_run = NotRun
    /\ fetched = NotRun
    /\ result = NotRun
    /\ response = NotRun
    /\ bastion_process = "None"
    /\ ssh_cmd = None
    /\ step = 0
    /\ output = <<>>
    /\ elapsed = 0
    /\ pipe = <<>>
    /\ buffered = <<>>
    /\ arrivals = 0
    /\ max_arrivals = cap
    /\ wait_end = <<>>
    /\ sent = <<>>
    /\ pending = NotRun
    /\ teardowns = 0
    /\ terminations = 0

\* one fetch, and no other
FetchInit(servers, cap) == FetchStart(servers, cap) /\ parked = NotRun

\* get_server_usage, lines 271-274: the descriptor has a nested target
RouteNested ==
    /\ pc = "start"
    /\ IsNested(server_config)
    /\ calls' = Append(calls, [fn |-> "run_ssh_command_nested",
                               final_config |-> FinalConfig(server_config),
                               proxy_config |-> ProxyConfig(server_config)])
    /\ pc' = "open"
    /\ UNCHANGED <<parseVars, pureVars, otherVars, server_config, response, direct_run, fetched, result, sessionVars>>

\* get_server_usage, lines 275-276, and run_ssh_command_direct
RouteDirect ==
    /\ pc = "start"
    /\ ~IsNested(server_config)
    /\ calls' = Append(calls, [fn |-> "run_ssh_command_direct",
                               final_config |-> server_config])
    /\ \E run \in DirectRuns :
          /\ direct_run' = run
          /\ fetched' = RunSshCommandDirect(run)
    /\ pc' = "fetched"
    /\ UNCHANGED <<parseVars, pureVars, otherVars, server_config, response, result, sessionVars>>

\* get_server_usage, lines 277-286: parse, or render the failure
Finish ==
    /\ pc = "fetched"
    /\ result' = UsageOf(fetched)
    /\ pc' = "done"
    /\ UNCHANGED <<parseVars, pureVars, otherVars, server_config, response, calls, direct_run, fetched, sessionVars>>

\* display_hostname with the nested target ignored: always the descriptor's own
DisplayHostnameOfDescriptor(cfg) == Get(cfg, "hostname", "None")

\* views.py line 44: display_hostname
DisplayHostname(cfg) ==
    IF "then" \in DOMAIN cfg
    THEN Get(cfg["then"], "hostname", "None")
    ELSE Get(cfg, "hostname", "None")

\* views.py line 47-50: {**usage, "server": display_hostname}
Tagged(usage, display_hostname) ==
    [k \in DOMAIN usage \cup {"server"} |->
        IF k = "server" THEN display_hostname ELSE usage[k]]

\* get_usage, views.py lines 36-50, once get_server_usage has returned
GetUsage ==
    /\ pc = "done"
    /\ response = NotRun
    /\ response' = Tagged(result, DisplayHostname(server_config))
    /\ UNCHANGED <<parseVars, pureVars, otherVars, pc, server_config, calls, direct_run, fetched, result,
                   sessionVars>>

\* line 155: the session process is spawned
Open ==
    /\ pc = "open"
    /\ ssh_cmd' = RunSshSessionCommand(ProxyConfig(server_config))
    /\ bastion_process' = "running"
    /\ pc' = "wait"
    /\ StartWait(1)
    /\ UNCHANGED <<parseVars, pureVars, otherVars, fetchVars, max_arrivals, wait_end, sent, pending,
                   teardowns, terminations>>

\* line 155: Popen raises
OpenFails ==
    /\ pc = "open"
    /\ LeaveTry(NestedExcept(Raise("OSError", "cannot spawn", <<>>)))
    /\ UNCHANGED <<parseVars, pureVars, otherVars, fetchVars, bastion_process, step, output, elapsed, pipe, buffered, arrivals,
                   max_arrivals, ssh_cmd, wait_end, sent, teardowns, terminations>>

\* the session process exits on its own
ProcessExits ==
    /\ pc \in {"wait", "waited", "send_target", "send_tail", "finally", "exit1", "exit2",
              "terminate"}
    /\ bastion_process = "running"
    /\ bastion_process' = "exited"
    /\ UNCHANGED <<parseVars, pureVars, otherVars, fetchVars, pc, step, output, elapsed, pipe, buffered, arrivals, max_arrivals, ssh_cmd,
                   wait_end, sent, pending, teardowns, terminations>>

\* the wait loop returns: on to the test of `success`
WaitReturns(how) ==
    /\ wait_end' = Append(wait_end, how)
    /\ pc' = "waited"

\* lines 53-60 and 81-86, with p in the pipe: read(1) returns the next
\* character the reader holds; a reader holding none first takes all of p.
\* The character joins output and the pattern is tested.
ReadOne(p) ==
    LET held == IF buffered = <<>> THEN p ELSE buffered
    IN  /\ buffered' = Tail(held)
        /\ pipe' = IF buffered = <<>> THEN <<>> ELSE p
        /\ output' = Append(output, Head(held))
        /\ IF Matched(step, Append(output, Head(held)))
           THEN WaitReturns("matched")
           ELSE UNCHANGED <<pc, wait_end>>

\* one iteration of the wait loop: select() finds the pipe readable at once.
\* The pipe is readable when it holds characters, and at end of file.
WaitRead ==
    /\ pc = "wait"
    /\ elapsed < Timeout(step)
    /\ pipe # <<>> \/ (bastion_process = "exited" /\ buffered # <<>>)
    /\ ReadOne(pipe)
    /\ UNCHANGED <<parseVars, pureVars, otherVars, fetchVars, bastion_process, step, elapsed, arrivals,
                   max_arrivals, ssh_cmd, sent, pending, teardowns, terminations>>

\* one iteration of the wait loop: the pipe is empty, a run of characters
\* arrives d ticks into the slice of select()
WaitArrival(run, d) ==
    /\ pc = "wait"
    /\ elapsed < Timeout(step)
    /\ bastion_process = "running"
    /\ pipe = <<>>
    /\ arrivals < max_arrivals
    /\ arrivals' = arrivals + 1
    /\ elapsed' = elapsed + d
    /\ ReadOne(run)
    /\ UNCHANGED <<parseVars, pureVars, otherVars, fetchVars, bastion_process, step, max_arrivals, ssh_cmd, sent, pending,
                   teardowns, terminations>>

\* lines 52-55 and 80-83: the process is gone, its stdout at end of file and
\* the reader empty: read(1) returns '' and the loop breaks
WaitEOF ==
    /\ pc = "wait"
    /\ elapsed < Timeout(step)
    /\ bastion_process = "exited"
    /\ pipe = <<>>
    /\ buffered = <<>>
    /\ WaitReturns("eof")
    /\ UNCHANGED <<parseVars, pureVars, otherVars, fetchVars, bastion_process, step, output, elapsed, pipe,
                   buffered, arrivals, max_arrivals, ssh_cmd, sent, pending, teardowns, terminations>>

\* lines 61-63 and 87-88: the process is gone, its stdout still held open by
\* another process and empty: nothing to read within the slice, and poll()
\* reports the exit
WaitPollExited ==
    /\ pc = "wait"
    /\ elapsed < Timeout(step)
    /\ bastion_process = "exited"
    /\ pipe = <<>>
    /\ elapsed' = elapsed + PollInterval
    /\ WaitReturns("exited")
    /\ UNCHANGED <<parseVars, pureVars, otherVars, fetchVars, bastion_process, step, output, pipe, buffered,
                   arrivals, max_arrivals, ssh_cmd, sent, pending, teardowns, terminations>>

\* lines 51-52, 61: nothing to read within the slice, the process alive
WaitIdle ==
    /\ pc = "wait"
    /\ elapsed < Timeout(step)
    /\ bastion_process = "running"
    /\ pipe = <<>>
    /\ elapsed' = elapsed + PollInterval
    /\ UNCHANGED <<parseVars, pureVars, otherVars, fetchVars, pc, bastion_process, step, output, pipe, buffered,
                   arrivals, max_arrivals, ssh_cmd, wait_end, sent, pending, teardowns, terminations>>

\* the same iteration repeated, nothing arriving, until the loop condition fails
WaitIdleOut ==
    /\ pc = "wait"
    /\ elapsed < Timeout(step)
    /\ bastion_process = "running"
    /\ pipe = <<>>
    /\ elapsed' = elapsed + PollInterval *
                    ((Timeout(step) - elapsed + PollInterval - 1) \div PollInterval)
    /\ UNCHANGED <<parseVars, pureVars, otherVars, fetchVars, pc, bastion_process, step, output, pipe, buffered,
                   arrivals, max_arrivals, ssh_cmd, wait_end, sent, pending, teardowns, terminations>>

\* WaitTimeout with the loop condition ignored: the loop goes on
WaitTimeoutIgnored ==
    /\ pc = "wait"
    /\ elapsed >= Timeout(step)
    /\ UNCHANGED vars

\* lines 51, 64 and 79, 89: the loop condition fails
WaitTimeout ==
    /\ pc = "wait"
    /\ elapsed >= Timeout(step)
    /\ WaitReturns("timeout")
    /\ UNCHANGED <<parseVars, pureVars, otherVars, fetchVars, bastion_process, step, output, elapsed, pipe, buffered, arrivals,
                   max_arrivals, ssh_cmd, sent, pending, teardowns, terminations>>

Last(s) == s[Len(s)]

\* lines 159-160, 174-175, 180-181, 191-200: the test of `success`
\* Success with the flag ignored: the driver goes on after a failed wait
SuccessIgnored == TRUE

\* `success` of lines 158, 173, 179 and 190: the flag the wait returned
Success == Last(wait_end) = "matched"

\* lines 159-160, 174-175, 180-181, 191-200: the test of `success`
Proceed ==
    /\ pc = "waited"
    /\ IF ~Success THEN
          /\ LeaveTry(WaitFailure(step, output))
          /\ UNCHANGED <<step, output, elapsed, pipe, buffered, arrivals>>
       ELSE IF step = 1 THEN
          /\ pc' = "send_target"
          /\ UNCHANGED <<step, output, elapsed, pipe, buffered, arrivals, pending>>
       ELSE IF step = 2 THEN
          /\ pc' = "wait"
          /\ StartWait(3)
          /\ UNCHANGED pending
       ELSE IF step = 3 THEN
          /\ pc' = "send_tail"
          /\ UNCHANGED <<step, output, elapsed, pipe, buffered, arrivals, pending>>
       ELSE
          /\ LeaveTry(DataOutcome(output))
          /\ UNCHANGED <<step, output, elapsed, pipe, buffered, arrivals>>
    /\ UNCHANGED <<parseVars, pureVars, otherVars, fetchVars, bastion_process, max_arrivals, ssh_cmd, wait_end, sent,
                   teardowns, terminations>>

\* _send_command: the write succeeds while the process reads its stdin and
\* raises BrokenPipeError once the process is gone
CanSend == bastion_process = "running"

\* lines 163-170: the nested-connect line
SendTarget ==
    /\ pc = "send_target"
    /\ IF CanSend THEN
          /\ sent' = Append(sent, TargetSshCommand(FinalConfig(server_config)))
          /\ pc' = "wait"
          /\ StartWait(2)
          /\ UNCHANGED pending
       ELSE
          /\ LeaveTry(NestedExcept(BrokenPipe))
          /\ UNCHANGED <<sent, step, output, elapsed, pipe, buffered, arrivals>>
    /\ UNCHANGED <<parseVars, pureVars, otherVars, fetchVars, bastion_process, max_arrivals, ssh_cmd, wait_end,
                   teardowns, terminations>>

\* lines 184-186: the tail line
SendTail ==
    /\ pc = "send_tail"
    /\ IF CanSend THEN
          /\ sent' = Append(sent, TailCommand)
          /\ pc' = "wait"
          /\ StartWait(4)
          /\ UNCHANGED pending
       ELSE
          /\ LeaveTry(NestedExcept(BrokenPipe))
          /\ UNCHANGED <<sent, step, output, elapsed, pipe, buffered, arrivals>>
    /\ UNCHANGED <<parseVars, pureVars, otherVars, fetchVars, bastion_process, max_arrivals, ssh_cmd, wait_end,
                   teardowns, terminations>>

\* run_ssh_command_nested is left with outcome o
LeaveNested(o) ==
    /\ fetched' = o
    /\ pc' = "fetched"

\* lines 208-209: the finally block is entered and tests the process
Finally ==
    /\ pc = "finally"
    /\ teardowns' = teardowns + 1
    /\ IF bastion_process = "running"
       THEN pc' = "exit1" /\ UNCHANGED fetched
       ELSE LeaveNested(pending)
    /\ UNCHANGED <<parseVars, pureVars, otherVars, server_config, response, calls, direct_run, result, bastion_process, step, output,
                   elapsed, pipe, buffered, arrivals, max_arrivals, ssh_cmd, wait_end, sent, pending, terminations>>

\* line 211 (next = "exit2") and line 213 (next = "terminate"): an `exit` line;
\* an exception of the write leaves the finally block and the function
SendExit(at, next) ==
    /\ pc = at
    /\ IF CanSend
       THEN sent' = Append(sent, ExitCommand) /\ pc' = next /\ UNCHANGED fetched
       ELSE LeaveNested(BrokenPipe) /\ UNCHANGED sent
    /\ UNCHANGED <<parseVars, pureVars, otherVars, server_config, response, calls, direct_run, result, bastion_process, step, output,
                   elapsed, pipe, buffered, arrivals, max_arrivals, ssh_cmd, wait_end, pending, teardowns, terminations>>

Exit1 == SendExit("exit1", "exit2")

Exit2 == SendExit("exit2", "terminate")

\* Terminate without the call
TerminateNotCalled ==
    /\ pc = "terminate"
    /\ pc' = "reap"
    /\ UNCHANGED <<parseVars, pureVars, otherVars, fetchVars, sessionVars>>

\* line 214
Terminate ==
    /\ pc = "terminate"
    /\ terminations' = terminations + 1
    /\ pc' = "reap"
    /\ UNCHANGED <<parseVars, pureVars, otherVars, fetchVars, bastion_process, step, output, elapsed, pipe, buffered, arrivals,
                   max_arrivals, ssh_cmd, wait_end, sent, pending, teardowns>>

\* line 215: the process is gone within 5 s, and the function returns or
\* raises what the try block left
Reap ==
    /\ pc = "reap"
    /\ bastion_process' = IF bastion_process = "running" THEN "terminated" ELSE bastion_process
    /\ LeaveNested(pending)
    /\ UNCHANGED <<parseVars, pureVars, otherVars, server_config, response, calls, direct_run, result, step, output, elapsed, pipe, buffered, arrivals,
                   max_arrivals, ssh_cmd, wait_end, sent, pending, teardowns, terminations>>

\* line 215: the process outlives the 5 s and wait() raises TimeoutExpired
ReapTimeout ==
    /\ pc = "reap"
    /\ bastion_process = "running"
    /\ LeaveNested(Raise("TimeoutExpired", "timed out after 5 seconds", <<>>))
    /\ UNCHANGED <<parseVars, pureVars, otherVars, server_config, response, calls, direct_run, result, bastion_process, step, output,
                   elapsed, pipe, buffered, arrivals, max_arrivals, ssh_cmd, wait_end, sent, pending, teardowns,
                   terminations>>

SessionSteps ==
    \/ Open
    \/ OpenFails
    \/ ProcessExits
    \/ WaitRead
    \/ WaitEOF
    \/ WaitPollExited
    \/ WaitTimeout
    \/ Proceed
    \/ SendTarget
    \/ SendTail
    \/ Finally
    \/ Exit1
    \/ Exit2
    \/ Terminate
    \/ Reap
    \/ ReapTimeout

Init == FetchInit(Servers, MaxArrivals)

Next ==
    \/ RouteNested
    \/ RouteDirect
    \/ Finish
    \/ GetUsage
    \/ SessionSteps
    \/ \E run \in Emissions(step) : WaitArrival(run, 0)
    \/ WaitIdleOut

Spec == Init /\ [][Next]_vars

\* a nested and a direct descriptor
FairServers ==
    { WithThen([hostname |-> "bastion", username |-> "user", key_filepath |-> "key"],
               [hostname |-> "target", username |-> "user", port |-> 5687]),
      [hostname |-> "direct", username |-> "user", port |-> 22] }

FairInit == FetchInit(FairServers, MaxArrivalsFair)

\* the steps of the fetchers, up to the return of run_ssh_command_nested or
\* run_ssh_command_direct
FetcherSteps ==
    \/ RouteNested
    \/ RouteDirect
    \/ SessionSteps
    \/ \E run \in Emissions(step) : WaitArrival(run, 0)
    \/ WaitIdleOut

\* the thread that runs the fetch keeps running: a step of the fetcher that can
\* be taken is taken
SpecFair == FairInit /\ [][Next]_vars /\ WF_vars(FetcherSteps)

\* the nested fetch with every poll of every wait a step
TimedServer == WithThen([hostname |-> "bastion", username |-> "user", key_filepath |-> "key"],
                        [hostname |-> "target", username |-> "user", port |-> 5687])

TimedInit == FetchInit({TimedServer}, MaxArrivalsTimed)

TimedNext ==
    \/ RouteNested
    \/ Finish
    \/ GetUsage
    \/ SessionSteps
    \/ \E run \in TimedEmissions(step) : \E d \in 0..(PollInterval - 1) : WaitArrival(run, d)
    \/ WaitIdle

SpecTimed == TimedInit /\ [][TimedNext]_vars

(***************************************************************************)
(* Two fetches at once.  Everything a fetch works on is local to its call  *)
(* of get_server_usage: the descriptor, the Popen object and its pipes,    *)
(* the buffers, the outcome.  The module holds only the logger and the     *)
(* compiled ANSI_ESCAPE.  The variables above are those of the fetch that  *)
(* takes the next step, `parked` holds those of the other.                 *)
(***************************************************************************)
MaxArrivalsPair == 1

PairFirst == WithThen([hostname |-> "bastion", username |-> "user", key_filepath |-> "key"],
                      [hostname |-> "target", username |-> "user", port |-> 5687])

PairSecond == WithThen([hostname |-> "gate", username |-> "admin", password |-> "secret"],
                       [hostname |-> "other", username |-> "admin", key_filepath |-> "key"])

\* what the sessions of the two fetches may print: a prompt, other text
PairEmissions(n) == IF n = 4 THEN { <<"x">> } ELSE { <<"$", " ">>, <<"x">> }

\* the variables of the fetch that takes the steps
Current ==
    [pc |-> pc, server_config |-> server_config, calls |-> calls,
     direct_run |-> direct_run, fetched |-> fetched, result |-> result,
     response |-> response, bastion_process |-> bastion_process, ssh_cmd |-> ssh_cmd,
     step |-> step, output |-> output, elapsed |-> elapsed, pipe |-> pipe,
     buffered |-> buffered, arrivals |-> arrivals, max_arrivals |-> max_arrivals,
     wait_end |-> wait_end, sent |-> sent, pending |-> pending,
     teardowns |-> teardowns, terminations |-> terminations]

\* a fetch of descriptor cfg that has not started
Unstarted(cfg, cap) ==
    [pc |-> "start", server_config |-> cfg, calls |-> <<>>,
     direct_run |-> NotRun, fetched |-> NotRun, result |-> NotRun,
     response |-> NotRun, bastion_process |-> "None", ssh_cmd |-> None,
     step |-> 0, output |-> <<>>, elapsed |-> 0, pipe |-> <<>>,
     buffered |-> <<>>, arrivals |-> 0, max_arrivals |-> cap,
     wait_end |-> <<>>, sent |-> <<>>, pending |-> NotRun,
     teardowns |-> 0, terminations |-> 0]

PairInit ==
    /\ FetchStart({PairFirst}, MaxArrivalsPair)
    /\ parked = Unstarted(PairSecond, MaxArrivalsPair)

\* Switch with the lines written to the sessions kept in one place
SwitchSharingSent ==
    /\ parked # NotRun
    /\ parked' = Current
    /\ pc' = parked.pc
    /\ server_config' = parked.server_config
    /\ calls' = parked.calls
    /\ direct_run' = parked.direct_run
    /\ fetched' = parked.fetched
    /\ result' = parked.result
    /\ response' = parked.response
    /\ bastion_process' = parked.bastion_process
    /\ ssh_cmd' = parked.ssh_cmd
    /\ step' = parked.step
    /\ output' = parked.output
    /\ elapsed' = parked.elapsed
    /\ pipe' = parked.pipe
    /\ buffered' = parked.buffered
    /\ arrivals' = parked.arrivals
    /\ max_arrivals' = parked.max_arrivals
    /\ wait_end' = parked.wait_end
    /\ pending' = parked.pending
    /\ teardowns' = parked.teardowns
    /\ terminations' = parked.terminations
    /\ UNCHANGED <<parseVars, pureVars, sent>>

\* the scheduler lets the other fetch take the next steps: each fetch keeps
\* all of its variables
Switch ==
    /\ parked # NotRun
    /\ parked' = Current
    /\ pc' = parked.pc
    /\ server_config' = parked.server_config
    /\ calls' = parked.calls
    /\ direct_run' = parked.direct_run
    /\ fetched' = parked.fetched
    /\ result' = parked.result
    /\ response' = parked.response
    /\ bastion_process' = parked.bastion_process
    /\ ssh_cmd' = parked.ssh_cmd
    /\ step' = parked.step
    /\ output' = parked.output
    /\ elapsed' = parked.elapsed
    /\ pipe' = parked.pipe
    /\ buffered' = parked.buffered
    /\ arrivals' = parked.arrivals
    /\ max_arrivals' = parked.max_arrivals
    /\ wait_end' = parked.wait_end
    /\ sent' = parked.sent
    /\ pending' = parked.pending
    /\ teardowns' = parked.teardowns
    /\ terminations' = parked.terminations
    /\ UNCHANGED <<parseVars, pureVars>>

PairNext ==
    \/ RouteNested
    \/ Finish
    \/ GetUsage
    \/ SessionSteps
    \/ \E run \in PairEmissions(step) : WaitArrival(run, 0)
    \/ WaitIdleOut
    \/ Switch

SpecPair == PairInit /\ [][PairNext]_vars

(***************************************************************************)
(* remove_ansi_escape on its own                                           *)
(***************************************************************************)
\* the characters of the texts handed to remove_ansi_escape: the escape
\* character, the CSI introducer, a parameter, a final byte, and a letter that
\* completes a two-character escape
AnsiAlphabet == {"ESC", "[", "0", "m", "A"}

AnsiInit ==
    /\ ansi_text \in SeqsUpTo(AnsiAlphabet, MaxTextLen)
    /\ ansi_cleaned = NotRun
    /\ parse_lines = <<>>
    /\ parse_result = NotRun
    /\ expect_success = FALSE
    /\ expect_output = <<>>
    /\ data_outcome = NotRun
    /\ Idle

\* remove_ansi_escape(text)
RemoveAnsiEscape ==
    /\ ansi_cleaned = NotRun
    /\ ansi_cleaned' = Return(RemoveAnsi(ansi_text))
    /\ UNCHANGED <<parseVars, otherVars, ansi_text, expect_success, expect_output, data_outcome, pc,
                   fetchVars, sessionVars>>

AnsiNext == RemoveAnsiEscape

SpecAnsi == AnsiInit /\ [][AnsiNext]_vars

(***************************************************************************)
(* The data stage of run_ssh_command_nested on its own: lines 190-207,     *)
(* given what _expect_output returned                                      *)
(***************************************************************************)
MaxDataLines == 3

Colour == <<"ESC", "[", "0", "m">>

\* lines the session may print after the tail command: rows of the usage
\* log, plain or coloured before the timestamp or after it, and other text
DataLineSet ==
    { CsvRow1, CsvRow2, Colour \o CsvRow2, <<"T1", ",">> \o Colour \o <<"x">>,
      <<"x">>, <<>> }

RECURSIVE Unlines(_)
\* the lines, each ended by a line break
Unlines(lines) ==
    IF lines = <<>> THEN <<>> ELSE Head(lines) \o <<"\n">> \o Unlines(Tail(lines))

DataInit ==
    /\ expect_success \in BOOLEAN
    /\ expect_output \in { Unlines(ls) : ls \in SeqsUpTo(DataLineSet, MaxDataLines) }
    /\ data_outcome = NotRun
    /\ ansi_text = <<>>
    /\ ansi_cleaned = NotRun
    /\ parse_lines = <<>>
    /\ parse_result = NotRun
    /\ Idle

\* lines 191-207: what the driver returns or raises after the data wait
AfterExpectOutput ==
    /\ data_outcome = NotRun
    /\ data_outcome' =
          IF expect_success
          THEN LET o == DataOutcome(expect_output)
               IN  IF IsReturn(o) THEN o ELSE NestedExcept(o)
          ELSE NestedExcept(WaitFailure(4, expect_output))
    /\ UNCHANGED <<parseVars, otherVars, ansi_text, ansi_cleaned, expect_success, expect_output, pc,
                   fetchVars, sessionVars>>

DataNext == AfterExpectOutput

SpecData == DataInit /\ [][DataNext]_vars

(***************************************************************************)
(* Claims about parse_usage_data, checked under SpecParse                  *)
(***************************************************************************)
Parsed == parse_result # NotRun

\* the lines with at least five commas, i.e. at least six fields
SixFieldIdx == {i \in DOMAIN parse_lines :
                  Cardinality({j \in DOMAIN parse_lines[i] : parse_lines[i][j] = ","}) >= 5}

\* C8: a list of which fewer than two lines have at least 6 comma-separated
\* fields is refused with a CSVParseError that names the number of valid lines
\* and the total number of lines, and no record is returned.
C8_InsufficientLinesRefused ==
    (Parsed /\ Cardinality(SixFieldIdx) < 2) =>
        /\ DOMAIN parse_result = {"raise", "msg", "found", "total"}
        /\ parse_result.raise = "CSVParseError"
        /\ parse_result.msg = "Insufficient valid CSV data"
        /\ parse_result.found = Cardinality(SixFieldIdx)
        /\ parse_result.total = Len(parse_lines)

\* one valid line among three: refused, reported as 1 valid line out of 3
C8_Witness ==
    /\ Parsed
    /\ Len(parse_lines) = 3
    /\ Cardinality(SixFieldIdx) = 1
    /\ IsRaise(parse_result)
    /\ parse_result.found = 1
    /\ parse_result.total = 3

IsUsageRecord(r) == DOMAIN r = {"last_update", "upload", "download", "disk", "cpu", "ram"}

\* C9: with at least two lines of at least 6 fields, the record is built from
\* the last two such lines (previous, last), whatever else the list holds:
\* last_update, disk, cpu, ram are fields 0, 3, 4, 5 of the last one, and upload
\* and download are last minus previous of fields 1 and 2 when both values are
\* available.
C9_LastTwoValidLines ==
    (Parsed /\ Cardinality(SixFieldIdx) >= 2 /\ IsUsageRecord(parse_result)) =>
        LET l == Max(SixFieldIdx)
            p == Max(SixFieldIdx \ {l})
            last == Fields(parse_lines[l])
            prev == Fields(parse_lines[p])
            delta(k) == LET a == ExtractNumericValue(last[k])
                            b == ExtractNumericValue(prev[k])
                        IN  IF IsNone(a) \/ IsNone(b) THEN None
                            ELSE [m |-> a.m * Pow10(Max({a.e, b.e}) - a.e)
                                          - b.m * Pow10(Max({a.e, b.e}) - b.e),
                                  e |-> Max({a.e, b.e})]
        IN  /\ parse_result.last_update = last[1]
            /\ parse_result.disk = last[4]
            /\ parse_result.cpu = last[5]
            /\ parse_result.ram = last[6]
            /\ parse_result.upload = delta(2)
            /\ parse_result.download = delta(3)

\* the example of the specification, with a line of too few fields and an older
\* valid line before the pair
C9_Witness ==
    /\ Len(parse_lines) = 3
    /\ parse_lines[2] = CsvRow1
    /\ parse_lines[3] = CsvRow2
    /\ parse_result = [last_update |-> <<"T2">>,
                       upload |-> [m |-> 5, e |-> 0],
                       download |-> [m |-> 3, e |-> 0],
                       disk |-> <<"5", "1", "%">>,
                       cpu |-> <<"4", "%">>,
                       ram |-> <<"4", "1", "%">>]

\* the numeric value of field k of a line is unavailable: no leading token of
\* digits with at most one dot, followed by a unit
Unavailable(line, k) ==
    LET parts == SplitWs(Fields(line)[k])
    IN  ~(Len(parts) >= 2 /\ IsDigitStr(DropFirstDot(parts[1])))

\* C10: with two lines of at least 6 fields the parser returns a record
\* whatever fields 1 and 2 hold, and a delta is null exactly when the value of
\* its field is unavailable in the previous or the last line.
C10_MalformedNeverFails ==
    (Parsed /\ Cardinality(SixFieldIdx) >= 2) =>
        LET l == Max(SixFieldIdx)
            p == Max(SixFieldIdx \ {l})
        IN  /\ IsUsageRecord(parse_result)
            /\ IsNone(parse_result.upload)
                  <=> (Unavailable(parse_lines[l], 2) \/ Unavailable(parse_lines[p], 2))
            /\ IsNone(parse_result.download)
                  <=> (Unavailable(parse_lines[l], 3) \/ Unavailable(parse_lines[p], 3))

(***************************************************************************)
(* Claims about the nested driver and get_server_usage                     *)
(***************************************************************************)
\* run_ssh_command_nested was called and has returned or raised
NestedLeft == IsNested(server_config) /\ pc \in {"fetched", "done"}

ExitsSent == Cardinality({i \in DOMAIN sent : sent[i] = ExitCommand})

ChildExitedInWait == \E i \in DOMAIN wait_end : wait_end[i] \in {"eof", "exited"}

C2_TeardownFailureNotRaised ==
    (NestedLeft /\ teardowns = 1) => fetched = pending

\* C3: get_server_usage returns a usage record of exactly the six fields, or a
\* record whose only field is error; nothing else leaves it.
C3_UniformResult ==
    /\ pc # "done" => result = NotRun
    /\ pc = "done" => (IsUsageRecord(result) \/ DOMAIN result = {"error"})

\* an exception that is none of the three anticipated kinds reached the boundary
C3_Witness ==
    /\ pc = "done"
    /\ IsRaise(fetched)
    /\ fetched.raise \notin {"SSHConnectionError", "SSHCommandError", "CSVParseError"}
    /\ DOMAIN result = {"error"}
    /\ result.error[1] = "Internal error"

\* C4: in direct mode a non-zero exit status and an empty output are each
\* rendered as Command failed, a timeout of the process as Connection failed.
C4_DirectFailureKinds ==
    (pc = "done" /\ ~IsNested(server_config)) =>
        /\ (direct_run.kind = "completed"
              /\ (direct_run.returncode # 0 \/ RemoveAnsi(Strip(direct_run.stdout)) = <<>>))
             => (DOMAIN result = {"error"} /\ result.error[1] = "Command failed")
        /\ direct_run.kind = "timeout"
             => (DOMAIN result = {"error"} /\ result.error[1] = "Connection failed")

\* C5: exactly one fetcher is invoked, exactly once: the nested driver iff the
\* descriptor has the key `then`, with the descriptor minus that key as proxy
\* config and the key's value as final config; else the direct fetcher.
C5_Routing ==
    /\ Len(calls) <= 1
    /\ pc # "start" =>
          /\ Len(calls) = 1
          /\ calls[1].fn = (IF "then" \in DOMAIN server_config
                            THEN "run_ssh_command_nested" ELSE "run_ssh_command_direct")
          /\ "then" \in DOMAIN server_config =>
                /\ DOMAIN calls[1].proxy_config = DOMAIN server_config \ {"then"}
                /\ \A k \in DOMAIN calls[1].proxy_config :
                      calls[1].proxy_config[k] = server_config[k]
                /\ calls[1].final_config = server_config["then"]
          /\ "then" \notin DOMAIN server_config => calls[1].final_config = server_config

\* a nested fetch ran to its end with its single call
C5_Witness ==
    /\ pc = "done"
    /\ "then" \in DOMAIN server_config
    /\ Len(calls) = 1
    /\ calls[1].fn = "run_ssh_command_nested"
    /\ "password" \in DOMAIN calls[1].proxy_config

ReadyTimedOut == wait_end # <<>> /\ Last(wait_end) = "timeout" /\ step \in 1..3

\* C6: a ready wait that never sees its pattern, the process alive, gives up
\* between 30 s and 30 s plus one poll slice, the driver raises a
\* SSHConnectionError carrying the captured output, and teardown still runs:
\* unless the process exits on its own meanwhile, both exit lines are written
\* and terminate() is called.
C6_ReadyTimeoutBoundary ==
    ReadyTimedOut =>
        /\ elapsed >= Ticks(ReadyTimeoutSeconds)
        /\ elapsed <= Ticks(ReadyTimeoutSeconds) + PollInterval
        /\ pc \in {"finally", "exit1", "exit2", "terminate", "reap", "fetched", "done"} =>
              /\ pending.raise = "SSHConnectionError"
              /\ pending.detail = RemoveAnsi(output)
        /\ NestedLeft =>
              /\ teardowns = 1
              /\ bastion_process # "exited" => (ExitsSent = 2 /\ terminations = 1)
        /\ (pc = "done" /\ fetched = pending) => result.error[1] = "Connection failed"

\* the third ready wait gave up past the 30 s, with output captured, and the
\* session was torn down
C6_Witness ==
    /\ pc = "done"
    /\ wait_end = <<"matched", "matched", "timeout">>
    /\ elapsed > Ticks(ReadyTimeoutSeconds)
    /\ output = <<"x">>
    /\ terminations = 1
    /\ result.error[1] = "Connection failed"

\* buf holds two consecutive newline-terminated lines of the CSV-line grammar,
\* the first at the start of a line
HoldsTwoCsvLines(buf) ==
    LET starts == {i \in DOMAIN buf : buf[i] \in Timestamps /\ (i = 1 \/ buf[i - 1] = "\n")}
        breaks == {j \in DOMAIN buf : buf[j] = "\n"}
    IN  \E i \in starts : \E j \in breaks : \E k \in breaks :
            i < j /\ j < k /\ CsvLineBody(buf, i, j) /\ CsvLineBody(buf, j + 1, k)

\* C7: as soon as the output read after the tail command holds two
\* newline-terminated lines of the CSV-line grammar, the data wait has matched,
\* and the driver then leaves its try block returning two lines.
C7_DataReadyMatches ==
    (step = 4 /\ HoldsTwoCsvLines(output)) =>
        /\ Len(wait_end) = 4
        /\ wait_end[4] = "matched"
        /\ pc \notin {"wait", "waited"} => (IsReturn(pending) /\ Len(pending.ret) = 2)

(***************************************************************************)
(* Claims about remove_ansi_escape, checked under SpecAnsi                 *)
(***************************************************************************)
\* s holds an escape sequence: ANSI_ESCAPE matches somewhere
HasEscapeSequence(s) == \E i \in DOMAIN s : AnsiMatchEnd(s, i) # 0

\* C11: remove_ansi_escape is idempotent, also on a text where an escape
\* character is directly followed by an escape sequence, and it returns a text
\* that holds no escape sequence unchanged.
C11_RemoveAnsiIdempotent ==
    IsReturn(ansi_cleaned) =>
        /\ RemoveAnsi(ansi_cleaned.ret) = ansi_cleaned.ret
        /\ ~HasEscapeSequence(ansi_text) => ansi_cleaned.ret = ansi_text

(***************************************************************************)
(* Claims about termination and about the caller                           *)
(***************************************************************************)
\* C12: every fetch terminates, whatever the remote side does, a remote that
\* stays silent and never closes the connection included: the fetcher
\* eventually returns or raises, which leaves get_server_usage its last step,
\* the parse or the rendering of the failure.
C12_EveryFetchTerminates == <>(pc \in {"fetched", "done"})

\* the remote never produced a character and never closed: the first ready
\* wait ended at its timeout and the fetch returned
C12_Witness ==
    /\ pc = "done"
    /\ wait_end = <<"timeout">>
    /\ output = <<>>
    /\ elapsed >= Ticks(ReadyTimeoutSeconds)
    /\ bastion_process = "terminated"
    /\ DOMAIN result = {"error"}

\* C13: get_usage tags every result, record or error, with the hostname to
\* display: the nested target's when the descriptor has one, else the
\* descriptor's own; every field of the result is kept as it is.
C13_HostnameTag ==
    response # NotRun =>
        /\ response.server = (IF "then" \in DOMAIN server_config
                              THEN server_config["then"].hostname
                              ELSE server_config.hostname)
        /\ DOMAIN response = DOMAIN result \cup {"server"}
        /\ \A k \in DOMAIN result : response[k] = result[k]

\* an error of a nested fetch, tagged with the target's hostname
C13_Witness ==
    /\ response # NotRun
    /\ "then" \in DOMAIN server_config
    /\ server_config.hostname = "bastion"
    /\ response.server = "target"
    /\ "error" \in DOMAIN response
    /\ response.error = result.error

(***************************************************************************)
(* Claims about the order of the commands                                  *)
(***************************************************************************)
\* the lines written to the session that are not teardown `exit` lines
Commands == SelectSeq(sent, LAMBDA c : c # ExitCommand)

\* the first wait that failed: its number, or 0
FirstFailedWait ==
    IF \E i \in DOMAIN wait_end : wait_end[i] # "matched"
    THEN Min({i \in DOMAIN wait_end : wait_end[i] # "matched"})
    ELSE 0

\* C15: the commands are sent in the order nested-connect, tail, each once:
\* the nested-connect line only after the first ready wait succeeded, the tail
\* line only after two further ready waits succeeded; after a failed wait
\* nothing but the `exit` lines of teardown is sent, and these come last.
C15_CommandOrder ==
    /\ Len(Commands) <= 2
    /\ Len(Commands) >= 1 =>
          /\ Commands[1] = TargetSshCommand(server_config["then"])
          /\ Len(wait_end) >= 1 /\ wait_end[1] = "matched"
    /\ Len(Commands) = 2 =>
          /\ Commands[2] = TailCommand
          /\ Len(wait_end) >= 3 /\ \A i \in 1..3 : wait_end[i] = "matched"
    /\ \A i \in DOMAIN sent : sent[i] = ExitCommand =>
          /\ pc \in {"exit2", "terminate", "reap", "fetched", "done"}
          /\ \A j \in i..Len(sent) : sent[j] = ExitCommand
    /\ FirstFailedWait # 0 =>
          Len(Commands) = (CASE FirstFailedWait = 1 -> 0
                             [] FirstFailedWait \in {2, 3} -> 1
                             [] FirstFailedWait = 4 -> 2)

\* the wait after the nested-connect line failed: the tail line was never sent,
\* the two exit lines were
C15_Witness ==
    /\ pc = "done"
    /\ wait_end = <<"matched", "timeout">>
    /\ sent = <<TargetSshCommand(server_config["then"]), ExitCommand, ExitCommand>>

(***************************************************************************)
(* Claims about the polling read                                           *)
(***************************************************************************)
\* what the session has emitted for the wait in progress: the characters the
\* wait has read, then the ones held by the reader, then the ones in the pipe
Emitted == output \o buffered \o pipe

\* some prefix of the emitted characters satisfies the predicate of wait n
SomePrefixMatches(n, chars) ==
    \E k \in 1..Len(chars) : Matched(n, SubSeq(chars, 1, k))

\* C16: a wait that ended by a match or by its timeout (the child still
\* running) reports a match exactly when some prefix of what the session
\* emitted before the timeout satisfies the predicate, and then returns the
\* shortest such prefix.
C16_PollingReadExact ==
    (pc = "waited" /\ Last(wait_end) \in {"matched", "timeout"}) =>
        /\ Success <=> SomePrefixMatches(step, Emitted)
        /\ Success =>
              /\ Matched(step, output)
              /\ ~SomePrefixMatches(step, SubSeq(output, 1, Len(output) - 1))

\* the part of the unread characters that continues the line the buffer ends in
LineRest(chars) ==
    IF \E i \in DOMAIN chars : chars[i] = "\n"
    THEN SubSeq(chars, 1, Min({i \in DOMAIN chars : chars[i] = "\n"}) - 1)
    ELSE chars

\* the buffer ends with a prompt character, optionally followed by one space
EndsWithPrompt(buf) ==
    /\ buf # <<>>
    /\ \/ Last(buf) \in PromptChars
       \/ Len(buf) >= 2 /\ Last(buf) = " " /\ buf[Len(buf) - 1] \in PromptChars

\* the emitted line goes on after the prompt character the buffer ends with
PromptMidLine ==
    /\ EndsWithPrompt(output)
    /\ LET rest == LineRest(buffered \o pipe)
       IN  /\ rest # <<>>
           /\ ~(rest = <<" ">> /\ Last(output) # " ")

\* C20: a ready wait succeeds only on a buffer that contains the clear-screen
\* sequence or ends with a prompt character and an optional space, and never
\* on a prompt character that the emitted output continues on the same line.
C20_PromptOnlyAtLineEnd ==
    (pc = "waited" /\ step <= 3 /\ Success) =>
        /\ IsClearScreen(output) \/ EndsWithPrompt(output)
        /\ IsClearScreen(output) \/ ~PromptMidLine

(***************************************************************************)
(* Claims about the nested-connect command                                 *)
(***************************************************************************)
\* the authentication a command line carries
AuthOf(command) == [identity |-> command.identity, sshpass |-> command.sshpass]

\* C19: the nested-connect line sent to the bastion authenticates to the final
\* host the way the session open would for the same host config: the key if a
\* key file is present, else the password wrapper, else neither, and never the
\* password wrapper together with the key.
C19_TargetAuthAsSessionOpen ==
    (IsNested(server_config) /\ Len(sent) >= 1 /\ sent[1].cmd = "ssh") =>
        /\ AuthOf(sent[1]) = AuthOf(RunSshSessionCommand(FinalConfig(server_config)))
        /\ ~(sent[1].identity # "None" /\ sent[1].sshpass # "None")

(***************************************************************************)
(* Claims about the data stage, checked under SpecData                     *)
(***************************************************************************)
DataStageDone == data_outcome # NotRun

\* the captured lines with their escape sequences removed first, then those
\* that begin with a timestamp
StrippedThenFiltered(combined_output) ==
    LET output_lines == SplitLines(Strip(combined_output))
        stripped == [i \in DOMAIN output_lines |-> RemoveAnsi(output_lines[i])]
    IN  SelectIdx(stripped, {i \in DOMAIN stripped : HasLeadingTimestamp(stripped[i])}, 1)

OwnOnly(f) ==
    /\ f.ssh_cmd \in {None, RunSshSessionCommand(ProxyConfig(f.server_config))}
    /\ \A i \in DOMAIN f.calls :
          /\ f.calls[i].proxy_config = ProxyConfig(f.server_config)
          /\ f.calls[i].final_config = FinalConfig(f.server_config)
    /\ \A i \in DOMAIN f.sent :
          f.sent[i] \in {TargetSshCommand(FinalConfig(f.server_config)), TailCommand, ExitCommand}
    /\ Len(SelectSeq(f.sent, LAMBDA c : c = ExitCommand)) <= 2
    /\ Len(SelectSeq(f.sent, LAMBDA c : c # ExitCommand)) <= Len(f.wait_end)
    /\ (f.pending # NotRun /\ f.wait_end # <<>> /\ Last(f.wait_end) # "matched") =>
          f.pending = WaitFailure(Len(f.wait_end), f.output)
    /\ f.teardowns <= 1
    /\ f.terminations <= 1
    /\ f.result # NotRun => f.result = UsageOf(f.fetched)
    /\ f.response # NotRun =>
          f.response = Tagged(f.result, FinalConfig(f.server_config).hostname)

SpawnFailed == IsNested(server_config) /\ pending # NotRun /\ bastion_process = "None"

\* the try block was left by an exception although no wait had failed
UnanticipatedException ==
    /\ IsNested(server_config)
    /\ pending # NotRun
    /\ IsRaise(pending)
    /\ \A i \in DOMAIN wait_end : wait_end[i] = "matched"

\* C21: when the session process cannot be spawned the nested driver raises
\* SSHConnectionError, rendered `Connection failed`, sends nothing and calls
\* neither `exit` nor terminate; any other exception that the driver does not
\* raise itself, raised before teardown, is likewise reported as
\* `Connection failed` and not as `Internal error`.
C21_SpawnFailureIsConnectionFailure ==
    /\ SpawnFailed =>
          /\ sent = <<>>
          /\ terminations = 0
          /\ wait_end = <<>>
    /\ UnanticipatedException =>
          /\ pending.raise = "SSHConnectionError"
          /\ fetched # NotRun => fetched = pending
          /\ result # NotRun =>
                /\ DOMAIN result = {"error"}
                /\ result.error[1] = "Connection failed"

\* Popen raised and the fetch is over
C21_Witness ==
    /\ SpawnFailed
    /\ pc = "done"
    /\ sent = <<>>
    /\ terminations = 0
    /\ result.error[1] = "Connection failed"
    /\ result.error[2].detail.raise = "OSError"

====
